---- MODULE Spec2Model ----
(***************************************************************************)
(* Model of scripts/validate_lessons.py: load_catalog, validate_lessons    *)
(* and main.  A run is one process: the catalog file is read and parsed,   *)
(* the lessons are scanned in document order, the (grade, strandID) groups *)
(* are checked for variant coverage, and the result is printed.            *)
(*                                                                         *)
(* JSON values are records [type, str, len, keys]: the JSON type, the text *)
(* of a string or number, the length of an array and the keys of an        *)
(* object.  A key that the dict does not hold has type "absent".  A        *)
(* message (a Python str built by an f-string) is the sequence of its      *)
(* pieces, in order.                                                       *)
(***************************************************************************)
EXTENDS Integers, Sequences, FiniteSets, TLC

\* ------------------------------------------------------------------------
\* Bounds of the model
\* ------------------------------------------------------------------------
MaxLessons == 3   \* longest catalog enumerated over GroupLessons
MaxItems == 2     \* longest `items` array

\* ------------------------------------------------------------------------
\* JSON values
\* ------------------------------------------------------------------------
Absent == [type |-> "absent", str |-> "", len |-> 0, keys |-> {}]
Null == [type |-> "null", str |-> "", len |-> 0, keys |-> {}]
Str(s) == [type |-> "string", str |-> s, len |-> 0, keys |-> {}]
Num(s) == [type |-> "number", str |-> s, len |-> 0, keys |-> {}]
Arr(n) == [type |-> "array", str |-> "", len |-> n, keys |-> {}]
Obj(ks) == [type |-> "object", str |-> "", len |-> 0, keys |-> ks]

\* dict.get(key, default): the default replaces a key the dict lacks
Get(d, key, default) == IF d[key].type = "absent" THEN default ELSE d[key]

\* dict.get(key): None replaces a key the dict lacks
GetNone(d, key) == Get(d, key, Null)

\* Python truth value of a JSON value
Truthy(v) ==
    CASE v.type = "absent" -> FALSE
      [] v.type = "null" -> FALSE
      [] v.type = "string" -> v.str # ""
      [] v.type = "number" -> v.str # "0"
      [] v.type = "array" -> v.len > 0
      [] v.type = "object" -> v.keys # {}

\* str(v) as an f-string renders it: None as "None", a string as itself
Format(v) == IF v.type = "null" THEN "None" ELSE v.str

\* ------------------------------------------------------------------------
\* Program constants
\* ------------------------------------------------------------------------
DEFAULT_CATALOG == "AX Academy/ContentModel/Data/curriculum_v1.json"
REQUIRED_VARIANTS == {Str("practice"), Str("challenge"), Str("remediation")}
REQUIRED_DIFFICULTIES ==
    {Str("emerging"), Str("developing"), Str("secure"), Str("extending")}
MISSING == Str("<missing>")

\* ------------------------------------------------------------------------
\* sorted() and ', '.join()
\* ------------------------------------------------------------------------
\* Code-point order of the strings that are ever sorted
StrRank(s) ==
    CASE s = "3" -> 1
      [] s = "4" -> 2
      [] s = "challenge" -> 3
      [] s = "practice" -> 4
      [] s = "remediation" -> 5
      [] OTHER -> 6

\* str < str
Less(a, b) == StrRank(a.str) < StrRank(b.str)

RECURSIVE Sorted(_)
\* sorted(S) for a set S of strings
Sorted(S) ==
    IF S = {} THEN <<>>
    ELSE LET m == CHOOSE x \in S : \A y \in S \ {x} : Less(x, y)
         IN <<m>> \o Sorted(S \ {m})

\* sorted(S) compares the elements pairwise: None is not comparable
Sortable(S) == Cardinality(S) <= 1 \/ \A x \in S : x.type = "string"

RECURSIVE Join(_, _)
\* sep.join(seq): the pieces of the joined string
Join(sep, seq) ==
    IF Len(seq) = 0 THEN <<>>
    ELSE IF Len(seq) = 1 THEN <<seq[1].str>>
    ELSE <<seq[1].str, sep>> \o Join(sep, Tail(seq))

\* str.join accepts only str items
Joinable(seq) == \A i \in 1..Len(seq) : seq[i].type = "string"

Digits == <<"0", "1", "2", "3", "4", "5", "6", "7", "8", "9">>

RECURSIVE Decimal(_)
\* str(n) for n >= 0: its digits
Decimal(n) ==
    IF n < 10 THEN <<Digits[n + 1]>>
    ELSE Decimal(n \div 10) \o <<Digits[(n % 10) + 1]>>

\* ------------------------------------------------------------------------
\* Inputs: lessons, catalogs and catalog files
\* ------------------------------------------------------------------------
NoItems == [type |-> "absent", elems |-> <<>>]
NullItems == [type |-> "null", elems |-> <<>>]
Items(seq) == [type |-> "array", elems |-> seq]

ArrayShapes == {Absent, Arr(0), Arr(1)}
ItemUniverse == [hints : ArrayShapes, scaffolds : ArrayShapes]
GoodItem == [hints |-> Arr(1), scaffolds |-> Arr(1)]
BadItem == [hints |-> Absent, scaffolds |-> Arr(0)]

Mastered == Obj({"scoreThreshold", "minimumItems"})

\* A lesson that passes every per-lesson check
ValidLesson ==
    [id |-> Str("L1"), grade |-> Str("3"), strandID |-> Str("S1"),
     variant |-> Str("practice"), difficulty |-> Str("secure"),
     objectives |-> Arr(1), hints |-> Arr(1), scaffolds |-> Arr(1),
     masteryRule |-> Mastered, items |-> NoItems]

Grades == {Str("3"), Absent}
Strands == {Str("S1"), Absent}
Variants == REQUIRED_VARIANTS \cup {Str("quiz"), Absent}
Difficulties == {Str("secure"), Str("hard"), Absent}
MasteryRules ==
    {Absent, Null, Num("5"), Num("0")} \cup
    {Obj(ks) : ks \in SUBSET {"scoreThreshold", "minimumItems"}}

\* A lesson failing every lesson-level check, with items failing too
BrokenLesson ==
    [id |-> Absent, grade |-> Str("3"), strandID |-> Str("S1"),
     variant |-> Str("quiz"), difficulty |-> Absent,
     objectives |-> Absent, hints |-> Arr(0), scaffolds |-> Absent,
     masteryRule |-> Null, items |-> Items(<<GoodItem, BadItem>>)]

\* Lessons that are valid but for their group and variant, and two that are not
GroupLessons ==
    {[ValidLesson EXCEPT !.grade = g, !.variant = v] :
        g \in Grades, v \in Variants}
    \cup {[ValidLesson EXCEPT !.strandID = Absent, !.variant = v] :
        v \in REQUIRED_VARIANTS}
    \cup {BrokenLesson, [ValidLesson EXCEPT !.items = NullItems]}

\* Lessons varying in every field the lesson-level checks read
FieldLessons ==
    {[ValidLesson EXCEPT !.id = i, !.variant = v, !.difficulty = d,
                         !.objectives = o, !.hints = h, !.scaffolds = s,
                         !.masteryRule = m] :
        i \in {Str("L1"), Absent}, v \in {Str("practice"), Str("quiz"), Absent},
        d \in Difficulties, o \in ArrayShapes, h \in ArrayShapes,
        s \in ArrayShapes, m \in MasteryRules}

RECURSIVE SeqsUpTo(_, _)
\* the sequences over S of length at most n
SeqsUpTo(S, n) ==
    IF n = 0 THEN {<<>>}
    ELSE LET shorter == SeqsUpTo(S, n - 1)
         IN shorter \cup {Append(q, x) : q \in shorter, x \in S}

\* Lessons varying in their items
ItemLessons ==
    {[ValidLesson EXCEPT !.id = i, !.items = Items(seq)] :
        i \in {Str("L1"), Absent}, seq \in SeqsUpTo(ItemUniverse, MaxItems)}

\* Three lessons covering the required variants of one (grade, strand) group
Covering(g, s) ==
    <<[ValidLesson EXCEPT !.grade = g, !.strandID = s, !.variant = Str("remediation")],
      [ValidLesson EXCEPT !.grade = g, !.strandID = s, !.variant = Str("practice")],
      [ValidLesson EXCEPT !.grade = g, !.strandID = s, !.variant = Str("challenge")]>>

\* Sequences of lessons a catalog may hold
LessonLists ==
    SeqsUpTo(GroupLessons, MaxLessons)
    \cup {<<l>> : l \in FieldLessons \cup ItemLessons}
    \cup {Covering(g, s) : g \in Grades, s \in Strands}
    \cup {Covering(g, s) \o <<l>> : g \in Grades, s \in Strands, l \in GroupLessons}
    \cup {Covering(g1, Str("S1")) \o Covering(g2, Str("S2")) :
            g1 \in {Str("3"), Str("4"), Absent}, g2 \in {Str("3"), Str("4"), Absent}}

\* Parsed documents: the `lessons` key may be missing
Catalogs ==
    {[lessons |-> Items(ls)] : ls \in LessonLists} \cup {[lessons |-> NoItems]}

Paths == {DEFAULT_CATALOG, "other.json"}

\* What the path names: nothing, text that is not JSON, or a JSON document
Files ==
    {[kind |-> k, doc |-> [lessons |-> NoItems]] : k \in {"missing", "invalid"}}
    \cup {[kind |-> "json", doc |-> c] : c \in Catalogs}

\* ------------------------------------------------------------------------
\* State
\* ------------------------------------------------------------------------
VARIABLES
    path,                \* args.catalog
    file,                \* what the path names on disk
    pc,                  \* "load", "validate", "scan", "coverage", "report", "done"
    catalog,             \* the parsed document
    idx,                 \* position of the next lesson of the scan loop
    gidx,                \* position of the next group of the coverage loop
    errors,              \* validate_lessons' list of messages
    origin,              \* for each message: the lesson, item and group it is about
    variants_by_strand,  \* insertion-ordered: <<[key, variants], ...>>
    stdout,              \* the lines printed
    stderr,              \* the message of a SystemExit, or the exception's type
    returned,            \* validate_lessons has returned its list to main
    status               \* the process's exit status, -1 while it runs

vars == <<path, file, pc, catalog, idx, gidx, errors, origin,
          variants_by_strand, stdout, stderr, returned, status>>

NoCatalog == [lessons |-> NoItems]
Running == -1

\* catalog.get("lessons", [])
Lessons(c) == Get(c, "lessons", Items(<<>>)).elems

\* ------------------------------------------------------------------------
\* validate_lessons: one iteration of the lesson loop
\* ------------------------------------------------------------------------
Lid(lesson) == Get(lesson, "id", MISSING)
\* Mutant of Grade: no placeholder for a missing grade
GradeNone(lesson) == GetNone(lesson, "grade")
Grade(lesson) == Get(lesson, "grade", MISSING)
Strand(lesson) == Get(lesson, "strandID", MISSING)
Variant(lesson) == GetNone(lesson, "variant")
Difficulty(lesson) == GetNone(lesson, "difficulty")
GroupKey(lesson) == <<Grade(lesson), Strand(lesson)>>

\* errors.append(msg) under `if cond`; item is 0 for a lesson-level message
When(cond, msg, item) == IF cond THEN <<[msg |-> msg, item |-> item]>> ELSE <<>>

\* Mutant of AddVariant: a new group is put first, not last
AddVariantFront(vbs, key, variant) ==
    IF \E i \in 1..Len(vbs) : vbs[i].key = key
    THEN [i \in 1..Len(vbs) |->
            IF vbs[i].key = key
            THEN [vbs[i] EXCEPT !.variants = @ \cup {variant}]
            ELSE vbs[i]]
    ELSE <<[key |-> key, variants |-> {variant}]>> \o vbs

\* variants_by_strand[key].add(variant) on a defaultdict(set)
AddVariant(vbs, key, variant) ==
    IF \E i \in 1..Len(vbs) : vbs[i].key = key
    THEN [i \in 1..Len(vbs) |->
            IF vbs[i].key = key
            THEN [vbs[i] EXCEPT !.variants = @ \cup {variant}]
            ELSE vbs[i]]
    ELSE Append(vbs, [key |-> key, variants |-> {variant}])

\* Mutant of FieldChecks: `if variant and variant not in REQUIRED_VARIANTS`
FieldChecksTruthyVariant(lesson) ==
    LET lid == Format(Lid(lesson))
        variant == Variant(lesson)
        difficulty == Difficulty(lesson)
    IN  When(~Truthy(GetNone(lesson, "objectives")),
             <<lid, ": objectives must not be empty">>, 0)
     \o When(Truthy(variant) /\ variant \notin REQUIRED_VARIANTS,
             <<lid, ": variant '", Format(variant), "' is not one of ", "['">>
               \o Join("', '", Sorted(REQUIRED_VARIANTS)) \o <<"']">>, 0)
     \o When(difficulty \notin REQUIRED_DIFFICULTIES,
             <<lid, ": difficulty '", Format(difficulty), "' is not recognised">>, 0)
     \o When(~Truthy(GetNone(lesson, "hints")),
             <<lid, ": must provide at least one lesson hint">>, 0)
     \o When(~Truthy(GetNone(lesson, "scaffolds")),
             <<lid, ": must provide at least one lesson scaffold">>, 0)

\* the checks of objectives, variant, difficulty, hints and scaffolds
FieldChecks(lesson) ==
    LET lid == Format(Lid(lesson))
        variant == Variant(lesson)
        difficulty == Difficulty(lesson)
    IN  When(~Truthy(GetNone(lesson, "objectives")),
             <<lid, ": objectives must not be empty">>, 0)
     \o When(variant \notin REQUIRED_VARIANTS,
             <<lid, ": variant '", Format(variant), "' is not one of ", "['">>
               \o Join("', '", Sorted(REQUIRED_VARIANTS)) \o <<"']">>, 0)
     \o When(difficulty \notin REQUIRED_DIFFICULTIES,
             <<lid, ": difficulty '", Format(difficulty), "' is not recognised">>, 0)
     \o When(~Truthy(GetNone(lesson, "hints")),
             <<lid, ": must provide at least one lesson hint">>, 0)
     \o When(~Truthy(GetNone(lesson, "scaffolds")),
             <<lid, ": must provide at least one lesson scaffold">>, 0)

\* lesson.get("masteryRule") or {}
Mastery(lesson) ==
    LET rule == GetNone(lesson, "masteryRule")
    IN IF Truthy(rule) THEN rule ELSE Obj({})

\* `key in mastery` raises TypeError when mastery is a number
MasteryRaises(lesson) == Mastery(lesson).type = "number"

\* Mutant of MasteryChecks: `elif` for the second key
MasteryChecksElif(lesson) ==
    LET lid == Format(Lid(lesson))
        mastery == Mastery(lesson)
    IN IF "scoreThreshold" \notin mastery.keys
       THEN <<[msg |-> <<lid, ": masteryRule missing scoreThreshold">>, item |-> 0]>>
       ELSE When("minimumItems" \notin mastery.keys,
                 <<lid, ": masteryRule missing minimumItems">>, 0)

\* the checks of the two masteryRule keys
MasteryChecks(lesson) ==
    LET lid == Format(Lid(lesson))
        mastery == Mastery(lesson)
    IN  When("scoreThreshold" \notin mastery.keys,
             <<lid, ": masteryRule missing scoreThreshold">>, 0)
     \o When("minimumItems" \notin mastery.keys,
             <<lid, ": masteryRule missing minimumItems">>, 0)

\* enumerate(lesson.get("items", [])) raises TypeError when items is null
ItemsRaise(lesson) == Get(lesson, "items", Items(<<>>)).type = "null"

\* Mutant of ItemCheck: the message gives the 0-based position
ItemCheckZeroBased(lid, item, index) ==
    LET prefix == <<lid, " item ">> \o Decimal(index)
    IN  When(~Truthy(GetNone(item, "hints")),
             prefix \o <<": must include at least one hint">>, index + 1)
     \o When(~Truthy(GetNone(item, "scaffolds")),
             prefix \o <<": must include at least one scaffold">>, index + 1)

\* the body of the item loop, for the item at 0-based position index
ItemCheck(lid, item, index) ==
    LET prefix == <<lid, " item ">> \o Decimal(index + 1)
    IN  When(~Truthy(GetNone(item, "hints")),
             prefix \o <<": must include at least one hint">>, index + 1)
     \o When(~Truthy(GetNone(item, "scaffolds")),
             prefix \o <<": must include at least one scaffold">>, index + 1)

RECURSIVE ItemChecksFrom(_, _, _)
\* enumerate(items) from the item at 0-based position index on
ItemChecksFrom(lid, items, index) ==
    IF index >= Len(items) THEN <<>>
    ELSE ItemCheck(lid, items[index + 1], index)
          \o ItemChecksFrom(lid, items, index + 1)

\* the checks of the lesson's items
ItemChecks(lesson) ==
    ItemChecksFrom(Format(Lid(lesson)),
                   Get(lesson, "items", Items(<<>>)).elems, 0)

\* the iteration raises TypeError
LessonRaises(lesson) == MasteryRaises(lesson) \/ ItemsRaise(lesson)

\* what the iteration appends to errors, up to the statement that raises
LessonChecks(lesson) ==
    IF MasteryRaises(lesson) THEN FieldChecks(lesson)
    ELSE IF ItemsRaise(lesson) THEN FieldChecks(lesson) \o MasteryChecks(lesson)
    ELSE FieldChecks(lesson) \o MasteryChecks(lesson) \o ItemChecks(lesson)

Messages(checks) == [i \in 1..Len(checks) |-> checks[i].msg]
Origins(checks, pos, key) ==
    [i \in 1..Len(checks) |-> [pos |-> pos, item |-> checks[i].item, key |-> key]]

\* ------------------------------------------------------------------------
\* validate_lessons: one iteration of the coverage loop
\* ------------------------------------------------------------------------
\* Mutant of CoverageChecks: `if not REQUIRED_VARIANTS <= variants`
CoverageChecksSubset(group) ==
    LET missing == REQUIRED_VARIANTS \ group.variants
    IN When(~(REQUIRED_VARIANTS \subseteq group.variants),
            <<Format(group.key[1]), "/", Format(group.key[2]),
              " missing lesson variants: ">> \o Join(", ", Sorted(missing)), 0)

\* the body of the coverage loop, for one group
CoverageChecks(group) ==
    LET missing == REQUIRED_VARIANTS \ group.variants
    IN When(group.variants # REQUIRED_VARIANTS,
            <<Format(group.key[1]), "/", Format(group.key[2]),
              " missing lesson variants: ">> \o Join(", ", Sorted(missing)), 0)

\* ------------------------------------------------------------------------
\* main: the report
\* ------------------------------------------------------------------------
\* {lesson.get("grade") for lesson in lessons}
GradeSet(lessons) == {GetNone(lessons[i], "grade") : i \in 1..Len(lessons)}

\* sorted(...) or ', '.join(...) raises TypeError
SummaryRaises(lessons) ==
    ~Sortable(GradeSet(lessons)) \/ ~Joinable(Sorted(GradeSet(lessons)))

Summary(lessons) ==
    <<"Validated ">> \o Decimal(Len(lessons)) \o <<" lessons across grades: ">>
        \o Join(", ", Sorted(GradeSet(lessons)))

\* Mutant of FailureReport: the violations are printed last first
FailureReportReversed(errs) ==
    <<(<<"Lesson validation failed:">>)>>
        \o [i \in 1..Len(errs) |-> <<"  - ">> \o errs[Len(errs) + 1 - i]]

\* the lines main prints for a non-empty list
FailureReport(errs) ==
    <<(<<"Lesson validation failed:">>)>>
        \o [i \in 1..Len(errs) |-> <<"  - ">> \o errs[i]]

\* ------------------------------------------------------------------------
\* The run
\* ------------------------------------------------------------------------
Init ==
    /\ file \in Files
    /\ path \in (IF file.kind = "json" THEN {DEFAULT_CATALOG} ELSE Paths)
    /\ pc = "load"
    /\ catalog = NoCatalog
    /\ idx = 1
    /\ gidx = 1
    /\ errors = <<>>
    /\ origin = <<>>
    /\ variants_by_strand = <<>>
    /\ stdout = <<>>
    /\ stderr = <<>>
    /\ returned = FALSE
    /\ status = Running

\* load_catalog returns the parsed document
LoadCatalog ==
    /\ pc = "load"
    /\ file.kind = "json"
    /\ catalog' = file.doc
    /\ pc' = "validate"
    /\ UNCHANGED <<path, file, idx, gidx, errors, origin, variants_by_strand,
                   stdout, stderr, returned, status>>

\* load_catalog: FileNotFoundError becomes SystemExit
CatalogNotFound ==
    /\ pc = "load"
    /\ file.kind = "missing"
    /\ stderr' = <<"Catalog not found at ", path>>
    /\ status' = 1
    /\ pc' = "done"
    /\ UNCHANGED <<path, file, catalog, idx, gidx, errors, origin,
                   variants_by_strand, stdout, returned>>

\* Mutant of CatalogNotJSON: the error is swallowed and {} is returned
CatalogNotJSONIgnored ==
    /\ pc = "load"
    /\ file.kind = "invalid"
    /\ catalog' = NoCatalog
    /\ pc' = "validate"
    /\ UNCHANGED <<path, file, idx, gidx, errors, origin, variants_by_strand,
                   stdout, stderr, returned, status>>

\* load_catalog: json.JSONDecodeError becomes SystemExit
CatalogNotJSON ==
    /\ pc = "load"
    /\ file.kind = "invalid"
    /\ stderr' = <<"Catalog at ", path, " is not valid JSON: ", "{exc}">>
    /\ status' = 1
    /\ pc' = "done"
    /\ UNCHANGED <<path, file, catalog, idx, gidx, errors, origin,
                   variants_by_strand, stdout, returned>>

\* validate_lessons is entered: its locals are initialised
StartValidate ==
    /\ pc = "validate"
    /\ errors' = <<>>
    /\ origin' = <<>>
    /\ variants_by_strand' = <<>>
    /\ idx' = 1
    /\ gidx' = 1
    /\ pc' = IF Len(Lessons(catalog)) = 0 THEN "coverage" ELSE "scan"
    /\ UNCHANGED <<path, file, catalog, stdout, stderr, returned, status>>

\* one iteration of `for lesson in catalog.get("lessons", [])`
ScanLesson ==
    /\ pc = "scan"
    /\ LET lesson == Lessons(catalog)[idx]
           checks == LessonChecks(lesson)
       IN /\ ~LessonRaises(lesson)
          /\ variants_by_strand' =
                AddVariant(variants_by_strand, GroupKey(lesson), Variant(lesson))
          /\ errors' = errors \o Messages(checks)
          /\ origin' = origin \o Origins(checks, idx, GroupKey(lesson))
    /\ idx' = idx + 1
    /\ pc' = IF idx = Len(Lessons(catalog)) THEN "coverage" ELSE "scan"
    /\ UNCHANGED <<path, file, catalog, gidx, stdout, stderr, returned, status>>

\* an iteration that raises TypeError, which nothing catches
ScanRaises ==
    /\ pc = "scan"
    /\ LET lesson == Lessons(catalog)[idx]
           checks == LessonChecks(lesson)
       IN /\ LessonRaises(lesson)
          /\ variants_by_strand' =
                AddVariant(variants_by_strand, GroupKey(lesson), Variant(lesson))
          /\ errors' = errors \o Messages(checks)
          /\ origin' = origin \o Origins(checks, idx, GroupKey(lesson))
    /\ stderr' = <<"TypeError">>
    /\ status' = 1
    /\ pc' = "done"
    /\ UNCHANGED <<path, file, catalog, idx, gidx, stdout, returned>>

\* one iteration of `for (grade, strand), variants in variants_by_strand.items()`
CheckGroup ==
    /\ pc = "coverage"
    /\ gidx <= Len(variants_by_strand)
    /\ LET group == variants_by_strand[gidx]
           checks == CoverageChecks(group)
       IN /\ errors' = errors \o Messages(checks)
          /\ origin' = origin \o Origins(checks, 0, group.key)
    /\ gidx' = gidx + 1
    /\ UNCHANGED <<path, file, pc, catalog, idx, variants_by_strand,
                   stdout, stderr, returned, status>>

\* `return errors`
ReturnErrors ==
    /\ pc = "coverage"
    /\ gidx > Len(variants_by_strand)
    /\ pc' = "report"
    /\ returned' = TRUE
    /\ UNCHANGED <<path, file, catalog, idx, gidx, errors, origin,
                   variants_by_strand, stdout, stderr, status>>

\* main: `if errors:` prints the report and returns 1
ReportFailure ==
    /\ pc = "report"
    /\ errors # <<>>
    /\ stdout' = FailureReport(errors)
    /\ status' = 1
    /\ pc' = "done"
    /\ UNCHANGED <<path, file, catalog, idx, gidx, errors, origin,
                   variants_by_strand, stderr, returned>>

\* main: prints the summary and returns 0
ReportSuccess ==
    /\ pc = "report"
    /\ errors = <<>>
    /\ ~SummaryRaises(Lessons(catalog))
    /\ stdout' = <<Summary(Lessons(catalog))>>
    /\ status' = 0
    /\ pc' = "done"
    /\ UNCHANGED <<path, file, catalog, idx, gidx, errors, origin,
                   variants_by_strand, stderr, returned>>

\* main: building the summary raises TypeError, which nothing catches
ReportRaises ==
    /\ pc = "report"
    /\ errors = <<>>
    /\ SummaryRaises(Lessons(catalog))
    /\ stderr' = <<"TypeError">>
    /\ status' = 1
    /\ pc' = "done"
    /\ UNCHANGED <<path, file, catalog, idx, gidx, errors, origin,
                   variants_by_strand, stdout, returned>>

Next ==
    \/ LoadCatalog
    \/ CatalogNotFound
    \/ CatalogNotJSON
    \/ StartValidate
    \/ ScanLesson
    \/ ScanRaises
    \/ CheckGroup
    \/ ReturnErrors
    \/ ReportFailure
    \/ ReportSuccess
    \/ ReportRaises

Spec == Init /\ [][Next]_vars

\* ------------------------------------------------------------------------
\* Properties
\* ------------------------------------------------------------------------
Doc == Lessons(catalog)
Positions == 1..Len(Doc)
Range(seq) == {seq[k] : k \in 1..Len(seq)}

\* the messages about lesson i: its lesson-level ones, and those of its item j
LessonLevel(i) == {k \in 1..Len(errors) : origin[k].pos = i /\ origin[k].item = 0}
ItemLevel(i, j) == {k \in 1..Len(errors) : origin[k].pos = i /\ origin[k].item = j}
\* the coverage messages, and those about one group
CoverageLevel == {k \in 1..Len(errors) : origin[k].pos = 0}
GroupLevel(key) == {k \in CoverageLevel : origin[k].key = key}

\* the groups of the document and the variants each one holds
DocKeys == {GroupKey(Doc[i]) : i \in Positions}
SeenIn(key) == {Variant(Doc[i]) : i \in {p \in Positions : GroupKey(Doc[p]) = key}}
Lacking(seen) ==
    SelectSeq(<<Str("challenge"), Str("practice"), Str("remediation")>>,
              LAMBDA v : v \notin seen)

\* C1: once validate_lessons has returned, every (grade, strandID) group of the
\* catalog has exactly one coverage violation if the variants seen in it are
\* not exactly {practice, challenge, remediation} and none if they are; the
\* violation names the group and lists the required variants the group lacks,
\* in sorted order.
C1_CoveragePerGroup ==
    returned =>
        /\ \A k \in CoverageLevel : origin[k].key \in DocKeys
        /\ \A key \in DocKeys :
              LET seen == SeenIn(key)
              IN /\ Cardinality(GroupLevel(key)) =
                        IF seen = REQUIRED_VARIANTS THEN 0 ELSE 1
                 /\ \A k \in GroupLevel(key) :
                        errors[k] =
                            <<Format(key[1]), "/", Format(key[2]),
                              " missing lesson variants: ">>
                            \o Join(", ", Lacking(seen))

\* a catalog with a covered group, and a group lacking two variants, validated
C1_Witness ==
    /\ returned
    /\ \E key \in DocKeys : SeenIn(key) = REQUIRED_VARIANTS /\ GroupLevel(key) = {}
    /\ \E key \in DocKeys :
          /\ Cardinality(REQUIRED_VARIANTS \ SeenIn(key)) = 2
          /\ Cardinality(GroupLevel(key)) = 1

\* C2: a run whose validate_lessons returned no violation ends by printing one
\* summary line (the lesson count and the sorted distinct grades) with exit
\* status 0, whatever the catalog: no lessons, or lessons without `grade`.
C2_SummaryOnSuccess ==
    (pc = "done" /\ returned /\ errors = <<>>) =>
        /\ status = 0
        /\ Len(stdout) = 1
        /\ stdout[1][1] = "Validated "

\* C3: validate_lessons never raises on a parsed document whose `lessons` is a
\* sequence of lesson records: a run that entered it ends with it returned.
C3_NeverRaises ==
    (pc = "done" /\ file.kind = "json") => returned

\* a field that is absent, null or an empty sequence
Empty(v) == v.type \in {"absent", "null"} \/ (v.type = "array" /\ v.len = 0)

\* the id a message gives for a lesson
Shown(lesson) == IF lesson.id.type = "absent" THEN "<missing>" ELSE lesson.id.str

LessonRules ==
    {"objectives", "variant", "difficulty", "hints", "scaffolds",
     "scoreThreshold", "minimumItems"}

\* the lesson-level rules a lesson breaks
Broken(lesson) ==
    {r \in LessonRules :
        CASE r = "objectives" -> Empty(lesson.objectives)
          [] r = "variant" -> lesson.variant \notin REQUIRED_VARIANTS
          [] r = "difficulty" -> lesson.difficulty \notin REQUIRED_DIFFICULTIES
          [] r = "hints" -> Empty(lesson.hints)
          [] r = "scaffolds" -> Empty(lesson.scaffolds)
          [] r = "scoreThreshold" -> "scoreThreshold" \notin lesson.masteryRule.keys
          [] r = "minimumItems" -> "minimumItems" \notin lesson.masteryRule.keys}

\* the text by which a message tells its rule
RuleText(r) ==
    CASE r = "objectives" -> ": objectives must not be empty"
      [] r = "variant" -> ": variant '"
      [] r = "difficulty" -> ": difficulty '"
      [] r = "hints" -> ": must provide at least one lesson hint"
      [] r = "scaffolds" -> ": must provide at least one lesson scaffold"
      [] r = "scoreThreshold" -> ": masteryRule missing scoreThreshold"
      [] r = "minimumItems" -> ": masteryRule missing minimumItems"

\* C4: every lesson the scan has passed has exactly one lesson-level message
\* per rule it breaks among the seven (objectives, variant, difficulty, hints,
\* scaffolds, masteryRule.scoreThreshold, masteryRule.minimumItems): k broken
\* rules give k messages, whatever else failed in it or in other lessons.
C4_OneMessagePerBrokenRule ==
    \A i \in Positions :
        i < idx =>
            /\ Cardinality(LessonLevel(i)) = Cardinality(Broken(Doc[i]))
            /\ {errors[k][2] : k \in LessonLevel(i)} =
                    {RuleText(r) : r \in Broken(Doc[i])}
            /\ \A k \in LessonLevel(i) : errors[k][1] = Shown(Doc[i])

\* a lesson breaking all seven rules was scanned after a lesson breaking some
C4_Witness ==
    \E i, j \in Positions :
        /\ i < j /\ j < idx
        /\ Broken(Doc[i]) # {}
        /\ Broken(Doc[j]) = LessonRules
        /\ Cardinality(LessonLevel(j)) = 7

\* the messages about lesson i that name its variant
VariantMessages(i) ==
    {k \in 1..Len(errors) : origin[k].pos = i /\ errors[k][2] = ": variant '"}

\* C5: in the list validate_lessons returned, a lesson whose variant is not
\* practice, challenge or remediation has exactly one violation naming that
\* variant and the allowed set, and the run exits with status 1; a lesson whose
\* variant is one of the three has no such violation.
C5_VariantViolation ==
    returned =>
        /\ \A k \in CoverageLevel : errors[k][2] # ": variant '"
        /\ \A i \in Positions :
              IF Doc[i].variant \in REQUIRED_VARIANTS
              THEN VariantMessages(i) = {}
              ELSE /\ Cardinality(VariantMessages(i)) = 1
                   /\ \A k \in VariantMessages(i) :
                        /\ errors[k][1] = Shown(Doc[i])
                        /\ errors[k][3] =
                              (IF Doc[i].variant.type = "absent" THEN "None"
                               ELSE Doc[i].variant.str)
                        /\ {"challenge", "practice", "remediation"}
                              \subseteq Range(errors[k])
                   /\ pc = "done" => status = 1

\* a run over a lesson of variant "quiz" and a lesson without variant has ended
C5_Witness ==
    /\ returned
    /\ pc = "done"
    /\ \E i, j \in Positions :
          /\ Doc[i].variant = Str("quiz")
          /\ Doc[j].variant = Absent
          /\ VariantMessages(i) # {}
          /\ VariantMessages(j) # {}
    /\ \E i \in Positions : Doc[i].variant \in REQUIRED_VARIANTS

C7_LoadFailure ==
    file.kind # "json" =>
        /\ pc \in {"load", "done"}
        /\ catalog = NoCatalog
        /\ errors = <<>>
        /\ stdout = <<>>
        /\ ~returned
        /\ pc = "done" =>
              /\ status \notin {Running, 0}
              /\ path \in Range(stderr)
              /\ "Catalog not found at " \in Range(stderr) <=> file.kind = "missing"
              /\ " is not valid JSON: " \in Range(stderr) <=> file.kind = "invalid"

\* a run on a file that is not JSON, at a path given on the command line, ended
C7_Witness ==
    /\ file.kind = "invalid"
    /\ path # DEFAULT_CATALOG
    /\ pc = "done"
    /\ status = 1

\* the items of a lesson, none when it has no `items`
ItemsOf(lesson) == lesson.items.elems

\* the messages of one kind about item j (1-based) of lesson i
ItemMessages(i, j, text) ==
    {k \in ItemLevel(i, j) :
        errors[k] = <<Shown(Doc[i]), " item ">> \o Decimal(j) \o <<text>>}

\* C8: for every lesson the scan has passed and every item at 0-based index j
\* of its items, there is a message naming the lesson id and position j + 1
\* for missing hints exactly if the item's hints are absent or empty, and
\* another for scaffolds exactly if its scaffolds are; an item with both has no
\* message, and a lesson without items has no item message.
C8_ItemMessages ==
    \A i \in Positions :
        i < idx =>
            /\ \A k \in 1..Len(errors) :
                  origin[k].pos = i => origin[k].item \in 0..Len(ItemsOf(Doc[i]))
            /\ \A j \in 0..(Len(ItemsOf(Doc[i])) - 1) :
                  LET item == ItemsOf(Doc[i])[j + 1]
                      hints == ItemMessages(i, j + 1, ": must include at least one hint")
                      scaffolds ==
                          ItemMessages(i, j + 1, ": must include at least one scaffold")
                  IN /\ Cardinality(hints) = IF Empty(item.hints) THEN 1 ELSE 0
                     /\ Cardinality(scaffolds) = IF Empty(item.scaffolds) THEN 1 ELSE 0
                     /\ ItemLevel(i, j + 1) = hints \cup scaffolds

\* a lesson was scanned whose first item is complete and whose second item
\* lacks hints and has empty scaffolds
C8_Witness ==
    \E i \in Positions :
        /\ i < idx
        /\ Len(ItemsOf(Doc[i])) >= 2
        /\ ~Empty(ItemsOf(Doc[i])[1].hints) /\ ~Empty(ItemsOf(Doc[i])[1].scaffolds)
        /\ ItemsOf(Doc[i])[2].hints = Absent /\ ItemsOf(Doc[i])[2].scaffolds = Arr(0)
        /\ ItemLevel(i, 1) = {}
        /\ Cardinality(ItemLevel(i, 2)) = 2

\* the position of the first lesson of a group in the document
FirstOf(key) ==
    CHOOSE i \in Positions :
        /\ GroupKey(Doc[i]) = key
        /\ \A p \in 1..(i - 1) : GroupKey(Doc[p]) # key

\* C9: in the list validate_lessons returned, the violations of a lesson (and
\* of its items) come before those of every later lesson, the coverage
\* violations come after all of them, and the coverage violations are in the
\* order in which their groups first occur in the document.
C9_Order ==
    returned =>
        /\ \A k \in 1..Len(errors) :
              /\ origin[k].pos \in {0} \cup Positions
              /\ origin[k].pos # 0 => errors[k][1] = Shown(Doc[origin[k].pos])
              /\ origin[k].pos = 0 =>
                    /\ origin[k].key \in DocKeys
                    /\ errors[k][1] = Format(origin[k].key[1])
                    /\ errors[k][3] = Format(origin[k].key[2])
        /\ \A a, b \in 1..Len(errors) :
              a < b =>
                /\ origin[b].pos # 0 =>
                      (origin[a].pos # 0 /\ origin[a].pos <= origin[b].pos)
                /\ (origin[a].pos = 0 /\ origin[b].pos = 0) =>
                      FirstOf(origin[a].key) < FirstOf(origin[b].key)

\* a list with violations of two lessons and of two groups was returned
C9_Witness ==
    /\ returned
    /\ \E a, b, c, d \in 1..Len(errors) :
          /\ origin[a].pos # 0 /\ origin[b].pos # 0
          /\ origin[a].pos < origin[b].pos
          /\ origin[c].pos = 0 /\ origin[d].pos = 0
          /\ c < d

\* the lesson with `id`, `grade` and `strandID` filled in where missing
Filled(lesson) ==
    [lesson EXCEPT
        !.id = IF @.type = "absent" THEN Str("L1") ELSE @,
        !.grade = IF @.type = "absent" THEN Str("3") ELSE @,
        !.strandID = IF @.type = "absent" THEN Str("S1") ELSE @]

\* the group a lesson belongs to, the placeholder standing for a missing field
PlaceholderKey(lesson) ==
    <<IF lesson.grade.type = "absent" THEN Str("<missing>") ELSE lesson.grade,
      IF lesson.strandID.type = "absent" THEN Str("<missing>") ELSE lesson.strandID>>

\* a message without the id it starts with
Rest(msg) == SubSeq(msg, 2, Len(msg))

\* the messages about lesson i, in order
About(i) ==
    LET RECURSIVE From(_)
        From(k) ==
            IF k > Len(errors) THEN <<>>
            ELSE IF origin[k].pos = i THEN <<errors[k]>> \o From(k + 1)
            ELSE From(k + 1)
    IN From(1)

\* C10: a missing `id`, `grade` or `strandID` is no violation and hides none:
\* the messages about a scanned lesson are those of the same lesson with the
\* fields present, but for the id they show, which is the placeholder when the
\* id is missing; and the lesson's variant is recorded in the group keyed by
\* its grade and strandID, the placeholder standing for a missing one.
C10_MissingIdentity ==
    \A i \in Positions :
        i < idx =>
            /\ LET got == About(i)
                   want == Messages(LessonChecks(Filled(Doc[i])))
               IN /\ Len(got) = Len(want)
                  /\ \A k \in 1..Len(got) :
                        /\ Rest(got[k]) = Rest(want[k])
                        /\ got[k][1] = Shown(Doc[i])
            /\ \E g \in 1..Len(variants_by_strand) :
                  /\ variants_by_strand[g].key = PlaceholderKey(Doc[i])
                  /\ GetNone(Doc[i], "variant") \in variants_by_strand[g].variants
            /\ \A g, h \in 1..Len(variants_by_strand) :
                  variants_by_strand[g].key = variants_by_strand[h].key => g = h

\* a lesson without id that breaks rules, and a lesson without grade, were
\* scanned, and the group of the placeholder grade was checked
C10_Witness ==
    /\ returned
    /\ \E i \in Positions : Doc[i].id = Absent /\ LessonLevel(i) # {}
    /\ \E i \in Positions :
          /\ Doc[i].grade = Absent
          /\ GroupLevel(<<Str("<missing>"), Doc[i].strandID>>) # {}

====
